---- MODULE Spec2Model ----
(***************************************************************************)
(* EduMood (src/app.py): a Flask application that classifies student       *)
(* feedback with an external service and keeps the records in data.json.   *)
(*                                                                         *)
(* The model has the backing file at the granularity of JSON tokens, the   *)
(* request handlers as threads of the (threaded) Flask server, and the     *)
(* pure computations of the handlers (strip, json.dump / json.load, the    *)
(* calendar day of a timestamp, the daily trend, the CSV rows) as          *)
(* operators.                                                              *)
(***************************************************************************)
EXTENDS Integers, Sequences, FiniteSets, TLC

VARIABLES
    file,      \* data.json: [exists, content], content a sequence of tokens
    th,        \* th[p]: the locals of the request handler running on thread p
    clock,     \* index in Instants of the value time.time() returns now
    tz,        \* UTC offset (seconds) of the server's local time zone
    client,    \* the module-level Gemini client: TRUE, or FALSE for None
    log,       \* history: the new_entry of every 200 answer of POST /submit_feedback
    store0     \* history: the records load_data gave when the server started

vars == <<file, th, clock, tz, client, log, store0>>

----------------------------------------------------------------------------
(* Bounds of the model *)

NProcs == 2           \* request threads
MaxSubmits == 2       \* POST /submit_feedback requests that reach the store
MaxLen == 2           \* characters of a submitted feedback field
MaxTicks == 1         \* advances of the clock during a run
MaxStore == 4         \* records of a store the read-only routes are given

Procs == 1..NProcs

----------------------------------------------------------------------------
(* Values *)

EMOTION_CATEGORIES ==
    {"Happy/Engaged", "Neutral/Calm", "Confused", "Bored/Drowsy", "Frustrated/Stressed"}

\* What the classifier is seen to answer: two labels of the list, one outside it.
SampleEmotions == {"Happy/Engaged", "Confused", "Angry"}

\* Characters of a feedback field: a blank and a letter.
Chars == {" ", "a"}

RECURSIVE SeqsUpTo(_, _)
SeqsUpTo(S, n) ==
    IF n = 0 THEN {<<>>}
    ELSE LET shorter == SeqsUpTo(S, n - 1)
         IN  shorter \cup {Append(s, x) : s \in {t \in shorter : Len(t) = n - 1}, x \in S}

\* Epoch seconds: 2025-12-31 18:29:59Z and 18:30:00Z (midnight at UTC+5:30),
\* 2026-09-30 12:00Z, 2026-10-01 12:00Z.
Instants == <<1767205799, 1767205800, 1790769600, 1790856000>>

TimeZones == {0, 19800}

NoRec == [timestamp |-> 0, feedback |-> <<>>, emotion |-> "", reasoning |-> ""]

\* Tokens of the file's text.  "obj" is one serialised record; "nul" a byte of a
\* hole left by a write past the end; "xff" a byte that is not UTF-8; "junk"
\* text that is not JSON.
Tok(t) == [t |-> t, rec |-> NoRec]
Obj(r) == [t |-> "obj", rec |-> r]

----------------------------------------------------------------------------
(* str.strip(), request.form.get *)

IsSpace(c) == c = " "

RECURSIVE lstrip(_)
lstrip(s) == IF s # <<>> /\ IsSpace(Head(s)) THEN lstrip(Tail(s)) ELSE s

RECURSIVE rstrip(_)
rstrip(s) ==
    IF s # <<>> /\ IsSpace(s[Len(s)]) THEN rstrip(SubSeq(s, 1, Len(s) - 1)) ELSE s

strip_id(s) == s

strip(s) == rstrip(lstrip(s))

\* request.form: a set of <<key, value>> pairs; get(key, default).
form_get(form, key, default) ==
    IF \E kv \in form : kv[1] = key
    THEN (CHOOSE kv \in form : kv[1] = key)[2]
    ELSE default

----------------------------------------------------------------------------
(* json.dump, json.load, load_data *)

json_dump(data) ==
    <<Tok("[")>> \o [i \in 1..Len(data) |-> Obj(data[i])] \o <<Tok("]")>>

\* The text decodes as UTF-8.
Decodes(content) == \A i \in 1..Len(content) : content[i].t # "xff"

\* The text is a JSON array of objects.  (Text that is JSON of another shape
\* is not among the files of this model.)
IsJson(content) ==
    /\ Len(content) >= 2
    /\ content[1].t = "["
    /\ content[Len(content)].t = "]"
    /\ \A i \in 2..(Len(content) - 1) : content[i].t = "obj"

json_parse(content) == [i \in 1..(Len(content) - 2) |-> content[i + 1].rec]

\* load_data: the value returned, or the exception that leaves it.
load_data(f) ==
    IF ~f.exists \/ Len(f.content) = 0
    THEN [raised |-> "none", value |-> <<>>]
    ELSE IF ~Decodes(f.content)
    THEN [raised |-> "UnicodeDecodeError", value |-> <<>>]
    ELSE IF IsJson(f.content)
    THEN [raised |-> "none", value |-> json_parse(f.content)]
    ELSE [raised |-> "none", value |-> <<>>]

\* f.write at a file position: overwrite, or extend (a hole reads as NULs).
WriteAt(content, pos, tok) ==
    IF pos < Len(content)
    THEN [content EXCEPT ![pos + 1] = tok]
    ELSE content \o [i \in 1..(pos - Len(content)) |-> Tok("nul")] \o <<tok>>

----------------------------------------------------------------------------
(* classify_emotion_gemini *)

\* A JSON object of string values: a set of <<key, value>> pairs.
HasKey(d, k) == \E kv \in d : kv[1] = k
Get(d, k) == (CHOOSE kv \in d : kv[1] = k)[2]

ErrorPayload(msg) == {<<"error", msg>>}

\* json.loads(response.text): the objects the service is seen to answer, with
\* an emotion of the list or outside it, or with a key missing.
Replies ==
    {{<<"emotion", e>>, <<"reasoning", "because">>} : e \in SampleEmotions}
        \cup {{<<"reasoning", "because">>}, {<<"emotion", "Confused">>}}

\* The (result, status) pairs classify_emotion_gemini can return; called says
\* whether client.models.generate_content was called.
classify_emotion_gemini(cl) ==
    IF ~cl
    THEN {[result |-> ErrorPayload("AI client not initialized (check API key)."),
           status |-> 500, called |-> FALSE]}
    ELSE {[result |-> r, status |-> 200, called |-> TRUE] : r \in Replies}
            \cup {[result |-> ErrorPayload("AI service temporarily unavailable."),
                   status |-> 503, called |-> TRUE],
                  [result |-> ErrorPayload("An unexpected error occurred during processing."),
                   status |-> 500, called |-> TRUE]}

----------------------------------------------------------------------------
(* datetime.fromtimestamp(ts).strftime('%Y-%m-%d') *)

\* Days since 1970-01-01 of the local calendar day of ts.
LocalDay(ts, offset) == (ts + offset) \div 86400

\* The proleptic Gregorian date <<year, month, day>> of a day number.
CivilFromDays(days) ==
    LET z == days + 719468
        era == z \div 146097
        doe == z - era * 146097
        yoe == (doe - doe \div 1460 + doe \div 36524 - doe \div 146096) \div 365
        doy == doe - (365 * yoe + yoe \div 4 - yoe \div 100)
        mp == (5 * doy + 2) \div 153
        d == doy - (153 * mp + 2) \div 5 + 1
        m == IF mp < 10 THEN mp + 3 ELSE mp - 9
        y == yoe + era * 400 + (IF m <= 2 THEN 1 ELSE 0)
    IN  <<y, m, d>>

\* A string is the sequence of its ASCII codes: '0' is 48, '-' is 45.
RECURSIVE Digits(_)
Digits(n) == IF n < 10 THEN <<48 + n>> ELSE Digits(n \div 10) \o <<48 + (n % 10)>>

RECURSIVE ZeroPad(_, _)
ZeroPad(s, width) == IF Len(s) >= width THEN s ELSE ZeroPad(<<48>> \o s, width)

strftime_dmY(ymd) ==
    ZeroPad(Digits(ymd[3]), 2) \o <<45>> \o ZeroPad(Digits(ymd[2]), 2) \o <<45>>
        \o ZeroPad(Digits(ymd[1]), 4)

strftime_Ymd(ymd) ==
    ZeroPad(Digits(ymd[1]), 4) \o <<45>> \o ZeroPad(Digits(ymd[2]), 2) \o <<45>>
        \o ZeroPad(Digits(ymd[3]), 2)

date_str(ts, offset) == strftime_Ymd(CivilFromDays(LocalDay(ts, offset)))

\* Python's order of two strings.
RECURSIVE StrLess(_, _)
StrLess(a, b) ==
    IF b = <<>> THEN FALSE
    ELSE IF a = <<>> THEN TRUE
    ELSE IF Head(a) # Head(b) THEN Head(a) < Head(b)
    ELSE StrLess(Tail(a), Tail(b))

----------------------------------------------------------------------------
(* time_series_data *)

IsNegative(emotion) == emotion \in {"Confused", "Frustrated/Stressed", "Bored/Drowsy"}

\* The loop over all_data: daily_data maps a date string to its two counts.
RECURSIVE DailyData(_, _, _)
DailyData(all_data, offset, daily_data) ==
    IF all_data = <<>> THEN daily_data
    ELSE LET entry == Head(all_data)
             d == date_str(entry.timestamp, offset)
             old == IF d \in DOMAIN daily_data THEN daily_data[d]
                    ELSE [negative_count |-> 0, total_count |-> 0]
             new == [negative_count |->
                         old.negative_count + (IF IsNegative(entry.emotion) THEN 1 ELSE 0),
                     total_count |-> old.total_count + 1]
         IN  DailyData(Tail(all_data), offset,
                       [k \in DOMAIN daily_data \cup {d} |->
                           IF k = d THEN new ELSE daily_data[k]])

\* sorted(daily_data.items()): the keys in ascending string order.
RECURSIVE SortedKeys(_)
SortedKeys(keys) ==
    IF keys = {} THEN <<>>
    ELSE LET least == CHOOSE k \in keys : \A o \in keys \ {k} : StrLess(k, o)
         IN  <<least>> \o SortedKeys(keys \ {least})

\* round(negative_count / total_count, 3), in thousandths: to the nearest, a tie
\* to the even one.
round3(negative_count, total_count) ==
    LET q == (1000 * negative_count) \div total_count
        r == (1000 * negative_count) % total_count
    IN  IF 2 * r < total_count THEN q
        ELSE IF 2 * r > total_count THEN q + 1
        ELSE IF q % 2 = 0 THEN q ELSE q + 1

chart_data(all_data, offset) ==
    LET daily_data == DailyData(all_data, offset, <<>>)
        keys == SortedKeys(DOMAIN daily_data)
    IN  [i \in 1..Len(keys) |->
            [date |-> keys[i],
             confusion_index |-> round3(daily_data[keys[i]].negative_count,
                                        daily_data[keys[i]].total_count)]]

----------------------------------------------------------------------------
(* download_csv *)

fieldnames == <<"timestamp", "feedback", "emotion", "reasoning">>

\* One row of csv.DictWriter: the four fields, the integer as its decimal text.
csv_row(entry) == <<Digits(entry.timestamp), entry.feedback, entry.emotion, entry.reasoning>>

csv_rows_noHeader(all_data) == [i \in 1..Len(all_data) |-> csv_row(all_data[i])]

\* writeheader() then writerows(all_data)
csv_rows(all_data) == <<fieldnames>> \o [i \in 1..Len(all_data) |-> csv_row(all_data[i])]

----------------------------------------------------------------------------
(* The locals of a request handler, and its answer *)

NoResp ==
    [status |-> 0, body |-> "", error |-> "", entry |-> NoRec, rows |-> <<>>,
     points |-> <<>>, data |-> <<>>]

\* jsonify(payload), status
ErrorResp(status, payload) ==
    [NoResp EXCEPT !.status = status, !.body = "error",
                   !.error = IF HasKey(payload, "error") THEN Get(payload, "error") ELSE ""]

\* An exception that leaves the view function: Flask answers 500.
ExceptionResp(name) == [NoResp EXCEPT !.status = 500, !.body = "exception", !.error = name]

IdleTh ==
    [pc |-> "idle", route |-> "", form |-> {}, feedback_text |-> <<>>,
     emotion_result |-> {}, status_code |-> 0, called |-> FALSE,
     all_data |-> <<>>, new_entry |-> NoRec, pos |-> 0, resp |-> NoResp]

\* The request bodies: no feedback field, or one of up to MaxLen characters.
Forms == {{}} \cup {{<<"feedback", s>>} : s \in SeqsUpTo(Chars, MaxLen)}

\* A record of an earlier run of the server.
r0 ==
    [timestamp |-> Instants[1], feedback |-> <<"a">>, emotion |-> "Neutral/Calm",
     reasoning |-> "because"]

Absent == [exists |-> FALSE, content |-> <<>>]
FileOf(content) == [exists |-> TRUE, content |-> content]

\* data.json as the server can find it: absent, zero-length, not JSON, cut
\* short, not UTF-8, or the dump of a store.
InitialFiles ==
    {Absent, FileOf(<<>>), FileOf(<<Tok("junk")>>), FileOf(<<Tok("["), Obj(r0)>>),
     FileOf(<<Tok("xff")>>), FileOf(json_dump(<<>>)), FileOf(json_dump(<<r0>>))}

\* POST /submit_feedback requests between the classifier and the answer.
InStore(t) == t.route = "submit_feedback" /\ t.pc \in {"classify", "load", "open", "write", "respond"}

Saving(t) == t.pc \in {"write", "respond"}

----------------------------------------------------------------------------
(* POST /submit_feedback *)

IsBlank(feedback_text) == feedback_text = <<>>

ClassifyFailed_only503(status_code) == status_code = 503

ClassifyFailed(status_code) == status_code # 200

append_front(all_data, new_entry) == <<new_entry>> \o all_data

append(all_data, new_entry) == Append(all_data, new_entry)

\* Lines 152-155: read and trim the field, answer 400 when nothing is left.
submit_feedback(p) ==
    /\ th[p].pc = "idle"
    /\ Len(log) + Cardinality({q \in Procs : InStore(th[q])}) < MaxSubmits
    /\ \E form \in Forms :
          LET feedback_text == strip(form_get(form, "feedback", <<>>))
              t == [IdleTh EXCEPT !.route = "submit_feedback", !.form = form,
                                  !.feedback_text = feedback_text]
          IN  th' = [th EXCEPT ![p] =
                        IF IsBlank(feedback_text)
                        THEN [t EXCEPT !.pc = "done",
                                       !.resp = ErrorResp(400, ErrorPayload("No feedback text provided."))]
                        ELSE [t EXCEPT !.pc = "classify"]]
    /\ UNCHANGED <<file, clock, tz, client, log, store0>>

\* Lines 158-161: classify, answer the classifier's error when it failed.
Classify(p) ==
    /\ th[p].pc = "classify"
    /\ \E o \in classify_emotion_gemini(client) :
          LET t == [th[p] EXCEPT !.emotion_result = o.result, !.status_code = o.status,
                                 !.called = o.called]
          IN  th' = [th EXCEPT ![p] =
                        IF ClassifyFailed(o.status)
                        THEN [t EXCEPT !.pc = "done", !.resp = ErrorResp(o.status, o.result)]
                        ELSE [t EXCEPT !.pc = "load"]]
    /\ UNCHANGED <<file, clock, tz, client, log, store0>>

\* Lines 164-173: load the store, build the entry, append it.
StoreLoad(p) ==
    /\ th[p].pc = "load"
    /\ LET ld == load_data(file)
           er == th[p].emotion_result
       IN  th' = [th EXCEPT ![p] =
                IF ld.raised # "none"
                THEN [@ EXCEPT !.pc = "done", !.resp = ExceptionResp(ld.raised)]
                ELSE IF ~HasKey(er, "emotion") \/ ~HasKey(er, "reasoning")
                THEN [@ EXCEPT !.pc = "done", !.all_data = ld.value,
                               !.resp = ExceptionResp("KeyError")]
                ELSE LET new_entry == [timestamp |-> Instants[clock],
                                       feedback |-> th[p].feedback_text,
                                       emotion |-> Get(er, "emotion"),
                                       reasoning |-> Get(er, "reasoning")]
                     IN  [@ EXCEPT !.pc = "open", !.new_entry = new_entry,
                                   !.all_data = append(ld.value, new_entry)]]
    /\ UNCHANGED <<file, clock, tz, client, log, store0>>

\* save_data, line 68: open(DATA_FILE, 'w') creates or truncates the file.
SaveOpen(p) ==
    /\ th[p].pc = "open"
    /\ file' = FileOf(<<>>)
    /\ th' = [th EXCEPT ![p].pc = "write", ![p].pos = 0]
    /\ UNCHANGED <<clock, tz, client, log, store0>>

\* save_data, line 69: json.dump writes the text; each flush of the buffer puts
\* the next piece at this handle's position.
SaveWrite(p) ==
    /\ th[p].pc = "write"
    /\ LET text == json_dump(th[p].all_data)
           pos == th[p].pos
       IN  /\ file' = [file EXCEPT !.content = WriteAt(file.content, pos, text[pos + 1])]
           /\ th' = [th EXCEPT ![p].pos = pos + 1,
                               ![p].pc = IF pos + 1 = Len(text) THEN "respond" ELSE "write"]
    /\ UNCHANGED <<clock, tz, client, log, store0>>

\* Line 176, after save_data has closed the file: answer the entry, 200.
SubmitRespond(p) ==
    /\ th[p].pc = "respond"
    /\ th' = [th EXCEPT ![p].pc = "done",
                        ![p].resp = [NoResp EXCEPT !.status = 200, !.body = "entry",
                                                   !.entry = th[p].new_entry]]
    /\ log' = Append(log, th[p].new_entry)
    /\ UNCHANGED <<file, clock, tz, client, store0>>

----------------------------------------------------------------------------
(* The read-only routes *)

\* Lines 182-184.
dashboard(p) ==
    /\ th[p].pc = "idle"
    /\ LET ld == load_data(file)
       IN  th' = [th EXCEPT ![p] =
                [IdleTh EXCEPT !.pc = "done", !.route = "dashboard", !.all_data = ld.value,
                    !.resp = IF ld.raised # "none" THEN ExceptionResp(ld.raised)
                             ELSE [NoResp EXCEPT !.status = 200, !.body = "html",
                                                 !.data = ld.value]]]
    /\ UNCHANGED <<file, clock, tz, client, log, store0>>

\* Lines 192-217.
download_csv(p) ==
    /\ th[p].pc = "idle"
    /\ LET ld == load_data(file)
           all_data == ld.value
       IN  th' = [th EXCEPT ![p] =
                [IdleTh EXCEPT !.pc = "done", !.route = "download_csv", !.all_data = all_data,
                    !.resp = IF ld.raised # "none" THEN ExceptionResp(ld.raised)
                             ELSE IF all_data = <<>>
                             THEN [NoResp EXCEPT !.status = 404, !.body = "text",
                                                 !.error = "No data available to download."]
                             ELSE [NoResp EXCEPT !.status = 200, !.body = "csv",
                                                 !.rows = csv_rows(all_data)]]]
    /\ UNCHANGED <<file, clock, tz, client, log, store0>>

\* Lines 226-256.
time_series_data(p) ==
    /\ th[p].pc = "idle"
    /\ LET ld == load_data(file)
           all_data == ld.value
       IN  th' = [th EXCEPT ![p] =
                [IdleTh EXCEPT !.pc = "done", !.route = "time_series_data",
                    !.all_data = all_data,
                    !.resp = IF ld.raised # "none" THEN ExceptionResp(ld.raised)
                             ELSE IF all_data = <<>>
                             THEN [NoResp EXCEPT !.status = 200, !.body = "json"]
                             ELSE [NoResp EXCEPT !.status = 200, !.body = "json",
                                                 !.points = chart_data(all_data, tz)]]]
    /\ UNCHANGED <<file, clock, tz, client, log, store0>>

\* The answer has been sent; the thread takes the next request.
Finish(p) ==
    /\ th[p].pc = "done"
    /\ th' = [th EXCEPT ![p] = IdleTh]
    /\ UNCHANGED <<file, clock, tz, client, log, store0>>

\* Time passes: time.time() returns the next instant.
Tick ==
    /\ clock <= MaxTicks
    /\ clock < Len(Instants)
    /\ clock' = clock + 1
    /\ UNCHANGED <<file, th, tz, client, log, store0>>

----------------------------------------------------------------------------
(* Specifications *)

InitWith(files, zones, clients) ==
    /\ file \in files
    /\ th = [p \in Procs |-> IdleTh]
    /\ clock = 1
    /\ tz \in zones
    /\ client \in clients
    /\ log = <<>>
    /\ store0 = load_data(file).value

\* The server's zone is UTC+5:30 where only the store's contents matter.
Init == InitWith(InitialFiles, {19800}, BOOLEAN)

Next ==
    \/ \E p \in Procs : submit_feedback(p)
    \/ \E p \in Procs : Classify(p)
    \/ \E p \in Procs : StoreLoad(p)
    \/ \E p \in Procs : SaveOpen(p)
    \/ \E p \in Procs : SaveWrite(p)
    \/ \E p \in Procs : SubmitRespond(p)
    \/ \E p \in Procs : dashboard(p)
    \/ \E p \in Procs : download_csv(p)
    \/ \E p \in Procs : time_series_data(p)
    \/ \E p \in Procs : Finish(p)
    \/ Tick

\* Any interleaving of the request threads.
Spec == Init /\ [][Next]_vars

\* One request at a time, all on one thread, from an absent or zero-length
\* data.json.
MainThread == CHOOSE p \in Procs : \A q \in Procs : p <= q

InitSeq == InitWith({Absent, FileOf(<<>>)}, {19800}, BOOLEAN)

NextSeq ==
    \/ submit_feedback(MainThread)
    \/ Classify(MainThread)
    \/ StoreLoad(MainThread)
    \/ SaveOpen(MainThread)
    \/ SaveWrite(MainThread)
    \/ SubmitRespond(MainThread)
    \/ dashboard(MainThread)
    \/ download_csv(MainThread)
    \/ time_series_data(MainThread)
    \/ Finish(MainThread)
    \/ Tick

SpecSeq == InitSeq /\ [][NextSeq]_vars

\* The read-only routes, one request at a time on one thread (they leave
\* data.json alone),
\* over every store of up to MaxStore records and in both zones.
SampleRecords ==
    {[timestamp |-> t, feedback |-> <<"a">>, emotion |-> e, reasoning |-> "because"] :
        t \in {Instants[1], Instants[2], Instants[4]}, e \in {"Happy/Engaged", "Bored/Drowsy"}}

InitRead ==
    InitWith(InitialFiles \cup {FileOf(json_dump(s)) : s \in SeqsUpTo(SampleRecords, MaxStore)},
             TimeZones, {TRUE})

NextRead ==
    \/ dashboard(MainThread)
    \/ download_csv(MainThread)
    \/ time_series_data(MainThread)
    \/ Finish(MainThread)

SpecRead == InitRead /\ [][NextRead]_vars

----------------------------------------------------------------------------
(* Vocabulary of the properties *)

\* The store a reader of data.json gets now.
Store == load_data(file).value

Submits(t) == t.route = "submit_feedback"

\* Thread p calls load_data in this step.
LoadStep(p) ==
    \/ th[p].pc = "idle" /\ th'[p].route \in {"dashboard", "download_csv", "time_series_data"}
    \/ th[p].pc = "load" /\ th'[p].pc # "load"

\* data.json holds text that is not the JSON of a store.
Unparsable(f) == f.exists /\ Len(f.content) > 0 /\ ~(Decodes(f.content) /\ IsJson(f.content))

\* The feedback field is absent, empty or all blanks.
BlankField(form) ==
    \A kv \in form : kv[1] = "feedback" => \A i \in 1..Len(kv[2]) : kv[2][i] = " "

\* text is field without its leading and trailing blanks.
TrimOf(text, field) ==
    /\ text # <<>>
    /\ text[1] # " "
    /\ text[Len(text)] # " "
    /\ \E i \in 0..Len(field) :
          /\ i + Len(text) <= Len(field)
          /\ SubSeq(field, i + 1, i + Len(text)) = text
          /\ \A k \in (1..i) \cup ((i + Len(text) + 1)..Len(field)) : field[k] = " "

\* A request that has its answer takes no further step but to end.
AnsweredStaysAnswered(p) == th[p].pc = "done" => th'[p] \in {th[p], IdleTh}

RECURSIVE ParseInt(_)
ParseInt(s) ==
    IF s = <<>> THEN 0 ELSE 10 * ParseInt(SubSeq(s, 1, Len(s) - 1)) + (s[Len(s)] - 48)

----------------------------------------------------------------------------
(* C1 *)

\* C1: once two or more submissions have been answered 200 and none is in
\* progress, the store holds at least as many records more than it started with
\* as there were 200 answers.
C1_NoLostWrites ==
    (Len(log) >= 2 /\ \A p \in Procs : ~InStore(th[p]))
        => Len(Store) >= Len(store0) + Len(log)

----------------------------------------------------------------------------
(* C2 *)

\* C2: a load_data performed while another request is inside save_data (the
\* file opened, not yet closed) gives the store as that writer loaded it or the
\* store it is writing, never something else.
C2_ReaderSeesCompleteStore ==
    [][\A p \in Procs :
          LET W == {q \in Procs \ {p} : Saving(th[q])}
          IN  (LoadStep(p) /\ W # {})
                 => /\ load_data(file).raised = "none"
                    /\ \E q \in W :
                          \/ Store = th[q].all_data
                          \/ Store = SubSeq(th[q].all_data, 1, Len(th[q].all_data) - 1)]_vars

----------------------------------------------------------------------------
(* C3 *)

EmotionsInSet(records) ==
    \A i \in 1..Len(records) : records[i].emotion \in EMOTION_CATEGORIES

\* C3: if every record of the initial store has an emotion of the fixed set, so
\* has every record of the store.
C3_EmotionInSet == EmotionsInSet(store0) => EmotionsInSet(Store)

----------------------------------------------------------------------------
(* C4 *)

\* C4: when classify_emotion_gemini returns a status other than 200, the request
\* is answered at once with that status, 500 or 503, and an error payload; the
\* step leaves data.json as it was and the request never reaches load_data or
\* save_data.
C4_ClassifierFailure ==
    [][\A p \in Procs :
          /\ (th[p].pc = "classify" /\ th'[p] # th[p] /\ th'[p].status_code # 200)
                => /\ th'[p].pc = "done"
                   /\ th'[p].resp.status = th'[p].status_code
                   /\ th'[p].resp.status \in {500, 503}
                   /\ th'[p].resp.body = "error"
                   /\ th'[p].resp.error # ""
                   /\ th'[p].all_data = <<>>
                   /\ file' = file
                   /\ log' = log
          /\ AnsweredStaysAnswered(p)]_vars

\* A submission answered 503 while the store holds a record.
C4_Witness ==
    \E p \in Procs :
        /\ th[p].pc = "done" /\ Submits(th[p])
        /\ th[p].status_code = 503 /\ th[p].resp.status = 503
        /\ Len(Store) >= 1

----------------------------------------------------------------------------
(* C5 *)

\* C5: a submission whose feedback field is absent, empty or all blanks is
\* answered 400 in its first step, without a call of the classifier and with
\* data.json as it was, and takes no further step.
C5_BlankFeedback ==
    [][\A p \in Procs :
          /\ (th[p].pc = "idle" /\ Submits(th'[p]) /\ BlankField(th'[p].form))
                => /\ th'[p].pc = "done"
                   /\ th'[p].resp.status = 400
                   /\ th'[p].resp.body = "error"
                   /\ th'[p].resp.error # ""
                   /\ ~th'[p].called
                   /\ th'[p].status_code = 0
                   /\ file' = file
                   /\ log' = log
          /\ AnsweredStaysAnswered(p)]_vars

\* A submission of two blanks answered 400 while the store holds a record.
C5_Witness ==
    \E p \in Procs :
        /\ th[p].pc = "done" /\ Submits(th[p])
        /\ th[p].form = {<<"feedback", <<" ", " ">>>>}
        /\ th[p].resp.status = 400
        /\ Len(Store) >= 1

----------------------------------------------------------------------------
(* C6 *)

\* C6: with one request at a time from an absent or zero-length file, whenever
\* no save is in progress the store is exactly the entries answered 200, in the
\* order of the requests; and the entry of a request answered 200 is the last
\* record, with the trimmed field, the classifier's emotion and reasoning and
\* the time of the clock.
C6_SequentialAppend ==
    /\ (\A p \in Procs : ~Saving(th[p])) => Store = log
    /\ \A p \in Procs :
          (th[p].pc = "done" /\ Submits(th[p]) /\ th[p].resp.status = 200)
             => /\ log # <<>>
                /\ log[Len(log)] = th[p].resp.entry
                /\ TrimOf(th[p].resp.entry.feedback, form_get(th[p].form, "feedback", <<>>))
                /\ th[p].resp.entry.emotion = Get(th[p].emotion_result, "emotion")
                /\ th[p].resp.entry.reasoning = Get(th[p].emotion_result, "reasoning")
                /\ \E i \in 1..clock : th[p].resp.entry.timestamp = Instants[i]

\* Two submissions answered 200, the second of a field with a blank to trim, and
\* both records in the store in that order.
C6_Witness ==
    /\ Len(log) = 2
    /\ log[1] # log[2]
    /\ Store = log
    /\ \E p \in Procs :
          /\ th[p].pc = "done" /\ th[p].resp.status = 200
          /\ th[p].form = {<<"feedback", <<" ", "a">>>>}

----------------------------------------------------------------------------
(* C7 *)

\* C7: a load_data of a missing, zero-length or unparsable data.json returns
\* the empty list, raises nothing and leaves the file as it was.
C7_LoadNeverFails ==
    [][\A p \in Procs :
          (LoadStep(p) /\ (~file.exists \/ Len(file.content) = 0 \/ Unparsable(file)))
             => /\ th'[p].resp.body # "exception"
                /\ th'[p].all_data = <<>>
                /\ file' = file]_vars

----------------------------------------------------------------------------
(* C8 *)

\* The positions of the records of local calendar day d.
OnDay(records, d) == {i \in 1..Len(records) : LocalDay(records[i].timestamp, tz) = d}

NegativeOnDay(records, d) ==
    {i \in OnDay(records, d) :
        records[i].emotion \in {"Confused", "Frustrated/Stressed", "Bored/Drowsy"}}

\* The calendar days of the records a point's date string stands for.
DaysOfPoint(records, pt) ==
    {LocalDay(records[i].timestamp, tz) :
        i \in {j \in 1..Len(records) : date_str(records[j].timestamp, tz) = pt.date}}

\* What C8 says of an answer but for the value of the index: one point for
\* each calendar day with a record, the days strictly ascending, each day with
\* total >= 1 and 0 <= negative <= total; none for no records.  IndexOk(n, t, ci)
\* is what is asked of a point's index ci (in thousandths) given the counts.
TrendShape(records, points, IndexOk(_, _, _)) ==
    /\ Len(points) = Cardinality({LocalDay(records[i].timestamp, tz) : i \in 1..Len(records)})
    /\ \A k \in 1..Len(points) :
          LET days == DaysOfPoint(records, points[k])
          IN  /\ Cardinality(days) = 1
              /\ \A d \in days :
                    LET total == Cardinality(OnDay(records, d))
                        negative == Cardinality(NegativeOnDay(records, d))
                    IN  /\ total >= 1
                        /\ 0 <= negative /\ negative <= total
                        /\ IndexOk(negative, total, points[k].confusion_index)
    /\ \A k \in 1..(Len(points) - 1) :
          \A d \in DaysOfPoint(records, points[k]), e \in DaysOfPoint(records, points[k + 1]) :
              d < e

IsRatio(negative, total, ci) == ci * total = 1000 * negative

\* ci thousandths is a nearest multiple of 0.001 to negative / total.
IsRounded(negative, total, ci) ==
    /\ 2 * (ci * total - 1000 * negative) <= total
    /\ 2 * (1000 * negative - ci * total) <= total

TrendAnswered(t) == t.pc = "done" /\ t.route = "time_series_data" /\ t.resp.body = "json"

\* C8 as stated: every answer of GET /api/time_series_data has one point per
\* calendar day with a record, strictly ascending by date, whose index is
\* exactly negative / total.
C8_ExactRatio ==
    \A p \in Procs :
        TrendAnswered(th[p]) => TrendShape(th[p].all_data, th[p].resp.points, IsRatio)

\* C8 amended: the same, with the index negative / total rounded to three
\* decimal places.
C8_RoundedRatio ==
    \A p \in Procs :
        TrendAnswered(th[p]) => TrendShape(th[p].all_data, th[p].resp.points, IsRounded)

\* An answer of two points for a store of four records not in the order of
\* their days, one day with one negative record of its three.
C8_Witness ==
    \E p \in Procs :
        /\ TrendAnswered(th[p])
        /\ Len(th[p].all_data) = 4
        /\ Len(th[p].resp.points) = 2
        /\ th[p].resp.points[1].confusion_index = 333
        /\ th[p].resp.points[2].confusion_index = 0
        /\ th[p].all_data[1].timestamp > th[p].all_data[2].timestamp

----------------------------------------------------------------------------
(* C9 *)

CsvAnswered(t) == t.pc = "done" /\ t.route = "download_csv" /\ t.resp.body # "exception"

----------------------------------------------------------------------------
(* C10 *)

\* C10: a submission that loads while data.json is unparsable (corrupt, or
\* emptied or cut short by a save in progress) and goes on to save holds the one
\* new record; and when a submission's save_data has written its last piece,
\* the store is the list it loaded with the new record at the end.
C10_StoreAfterSave ==
    [][\A p \in Procs :
          /\ (/\ th[p].pc = "load" /\ th'[p].pc = "open"
              /\ \/ Unparsable(file)
                 \/ Len(file.content) = 0 /\ \E q \in Procs \ {p} : Saving(th[q]))
                => th'[p].all_data = <<th'[p].new_entry>>
          /\ (th[p].pc = "write" /\ th'[p].pc = "respond")
                => /\ load_data(file').raised = "none"
                   /\ load_data(file').value = th[p].all_data]_vars

====
